---- MODULE Spec2Model ----
(***************************************************************************)
(* pySecMaster: the cross-source consensus validator                       *)
(* (src/pySecMaster/cross_validator.py, class CrossValidate).              *)
(*                                                                         *)
(* The price table is a bag of rows.  A validator call fetches the rows    *)
(* of one tsid, votes per date and field, and replaces the rows of the     *)
(* consensus vendor (delete, retried up to 5 times, then append).          *)
(***************************************************************************)
EXTENDS Integers, Sequences, FiniteSets, Bags, TLC

VARIABLES
    prices,              \* the table self.table: a bag of rows (raw + consensus)
    source_weights_df,   \* self.source_weights_df: rows (data_vendor_id, consensus_weight)
    table,               \* self.table
    period,              \* self.period (None, or a number of days)
    now,                 \* the wall clock read by datetime.now(), in days
    tsid_list,           \* self.tsid_list
    pc,                  \* per validator call: where the call stands
    unique_sources,      \* per call: vendors found among the fetched rows
    beg_date,            \* per call: now - period (None when no period)
    consensus_price_df,  \* per call: the rows computed for the append
    retry_count,         \* per call: the delete loop's counter
    delete_status,       \* per call: result of the last delete attempt
    log,                 \* per call: the store operations issued so far
    before,              \* per call: the rows of its tsid when the call fetched
    last_run,            \* what the previous completed run over the list left
    upstream,            \* number of changes made by upstream ingestion
    download             \* QuandlDownload.download_data: the call and its retries

vars == <<prices, source_weights_df, table, period, now, tsid_list, pc,
          unique_sources, beg_date, consensus_price_df, retry_count,
          delete_status, log, before, last_run, upstream, download>>

-----------------------------------------------------------------------------
(* Values and bounds *)

\* Python's None (a missing cell, a period that was not given)
None == -1000

\* The value the downloaders store for "no data"
NoData == -1

\* Price values the vendors report in the model
Values == {None, NoData, 10, 11}

\* Raw data vendors
Vendors == {1, 2, 3}

\* Consensus weights of the model
Weights == {2, 3, 4}

\* Dates are days 1..MaxDate; the clock runs from MaxDate to MaxNow
MaxDate == 2
MaxNow == MaxDate + 1
Dates == 1..MaxDate

\* Changes upstream ingestion makes to the raw rows between runs
MaxUpstream == 1

-----------------------------------------------------------------------------
(* Collaborators of the validator (utilities.database_queries) *)

\* query_data_vendor_id(name='pySecMaster_Consensus')
validator_id == 0

\* self.source_id_exclude_list, built from source_exclude_list
source_id_exclude_list == {validator_id}

DailyColumns == <<"open", "high", "low", "close", "volume", "ex_dividend", "split_ratio">>
MinuteColumns == <<"open", "high", "low", "close", "volume">>

\* The field columns a fetch of table t returns
Columns(t) == IF t = "daily_prices" THEN DailyColumns ELSE MinuteColumns

Range(s) == {s[k] : k \in DOMAIN s}

Min(S) == CHOOSE x \in S : \A y \in S : x <= y

RECURSIVE SortedSeq(_)
\* The elements of a finite set of integers, ascending
SortedSeq(S) == IF S = {} THEN <<>> ELSE <<Min(S)>> \o SortedSeq(S \ {Min(S)})

\* query_all_tsid_prices: the rows of one tsid, indexed by (date, data_vendor_id)
query_all_tsid_prices(tbl, tsid) ==
    {r \in BagToSet(tbl) : r.source = "tsid" /\ r.source_id = tsid}

\* Python truthiness of self.period: None and 0 are both false
Truthy(x) == x # None /\ x # 0

-----------------------------------------------------------------------------
(* The vote for one date and one field: validator, lines 168-223 *)

\* self.source_weights_df.loc[data_vendor_id == vendor, 'consensus_weight']
SourceWeight(weights, vendor) ==
    LET hits == SelectSeq(weights, LAMBDA w : w.data_vendor_id = vendor)
    IN  [k \in DOMAIN hits |-> hits[k].consensus_weight]

\* field_data.iteritems(): (data_vendor_id, value) of the date's rows, in index order
FieldData(df, date, field) ==
    LET rows == {r \in df : r.date = date}
        ids  == SortedSeq({r.data_vendor_id : r \in rows})
        row(v) == CHOOSE r \in rows : r.data_vendor_id = v
    IN  [k \in DOMAIN ids |-> <<ids[k], row(ids[k]).vals[field]>>]

\* Mutant of TallyStep: a matching bucket is overwritten with the vendor's
\* weight instead of being increased by it (weights counted per vendor)
TallyStep_Overwrite(weights, field_consensus, source_data) ==
    IF source_data[1] \in source_id_exclude_list THEN field_consensus
    ELSE IF source_data[2] = None THEN field_consensus
    ELSE LET source_weight == SourceWeight(weights, source_data[1])
         IN  IF source_weight = <<>>
             THEN field_consensus
             ELSE IF \E k \in DOMAIN field_consensus :
                         field_consensus[k][1] = source_data[2]
                  THEN [k \in DOMAIN field_consensus |->
                          IF field_consensus[k][1] = source_data[2]
                          THEN <<field_consensus[k][1], source_weight[1]>>
                          ELSE field_consensus[k]]
                  ELSE Append(field_consensus, <<source_data[2], source_weight[1]>>)

\* Mutant of TallyStep: a vendor without a weight row votes with weight 0
TallyStep_ZeroWeight(weights, field_consensus, source_data) ==
    IF source_data[1] \in source_id_exclude_list THEN field_consensus
    ELSE IF source_data[2] = None THEN field_consensus
    ELSE LET found == SourceWeight(weights, source_data[1])
             source_weight == IF found = <<>> THEN <<0>> ELSE found
         IN  IF \E k \in DOMAIN field_consensus :
                    field_consensus[k][1] = source_data[2]
             THEN [k \in DOMAIN field_consensus |->
                     IF field_consensus[k][1] = source_data[2]
                     THEN <<field_consensus[k][1],
                            field_consensus[k][2] + source_weight[1]>>
                     ELSE field_consensus[k]]
             ELSE Append(field_consensus, <<source_data[2], source_weight[1]>>)

\* Mutant of TallyStep: the exclude list is not consulted
TallyStep_NoExclusion(weights, field_consensus, source_data) ==
    IF source_data[2] = None THEN field_consensus
    ELSE LET source_weight == SourceWeight(weights, source_data[1])
         IN  IF source_weight = <<>>
             THEN field_consensus
             ELSE IF \E k \in DOMAIN field_consensus :
                         field_consensus[k][1] = source_data[2]
                  THEN [k \in DOMAIN field_consensus |->
                          IF field_consensus[k][1] = source_data[2]
                          THEN <<field_consensus[k][1],
                                 field_consensus[k][2] + source_weight[1]>>
                          ELSE field_consensus[k]]
                  ELSE Append(field_consensus, <<source_data[2], source_weight[1]>>)

\* One pass of the loop over sources; field_consensus is an insertion-ordered
\* dict, kept as a sequence of (value, weight) buckets
TallyStep(weights, field_consensus, source_data) ==
    IF source_data[1] \in source_id_exclude_list THEN field_consensus
    ELSE IF source_data[2] = None THEN field_consensus
    ELSE LET source_weight == SourceWeight(weights, source_data[1])
         IN  IF source_weight = <<>>
             THEN field_consensus     \* IndexError: pass
             ELSE IF \E k \in DOMAIN field_consensus :
                         field_consensus[k][1] = source_data[2]
                  THEN [k \in DOMAIN field_consensus |->
                          IF field_consensus[k][1] = source_data[2]
                          THEN <<field_consensus[k][1],
                                 field_consensus[k][2] + source_weight[1]>>
                          ELSE field_consensus[k]]
                  ELSE Append(field_consensus, <<source_data[2], source_weight[1]>>)

RECURSIVE Tally(_, _, _)
\* field_consensus after the sources of field_data, taken in order
Tally(weights, field_consensus, field_data) ==
    IF field_data = <<>> THEN field_consensus
    ELSE Tally(weights, TallyStep(weights, field_consensus, Head(field_data)),
               Tail(field_data))

\* Mutant of ConsensusValue: an empty tally leaves the cell unset
ConsensusValue_NoDefault(field_consensus) ==
    IF field_consensus = <<>> THEN None
    ELSE LET best == CHOOSE k \in DOMAIN field_consensus :
                        \A j \in DOMAIN field_consensus :
                            field_consensus[j][2] <= field_consensus[k][2]
         IN  field_consensus[best][1]

\* Mutant of ConsensusValue: of the buckets of maximal weight the one created
\* last is taken
ConsensusValue_LastMax(field_consensus) ==
    IF field_consensus = <<>> THEN -1
    ELSE LET best == CHOOSE k \in DOMAIN field_consensus :
                        /\ \A j \in DOMAIN field_consensus :
                              field_consensus[j][2] <= field_consensus[k][2]
                        /\ \A j \in (k + 1)..Len(field_consensus) :
                              field_consensus[j][2] < field_consensus[k][2]
         IN  field_consensus[best][1]

\* Mutant of ConsensusValue: the weight of the winning bucket is taken
\* instead of its value
ConsensusValue_Weight(field_consensus) ==
    IF field_consensus = <<>> THEN -1
    ELSE LET best == CHOOSE k \in DOMAIN field_consensus :
                        /\ \A j \in DOMAIN field_consensus :
                              field_consensus[j][2] <= field_consensus[k][2]
                        /\ \A j \in 1..(k - 1) :
                              field_consensus[j][2] < field_consensus[k][2]
         IN  field_consensus[best][2]

\* max(field_consensus.items(), key=itemgetter(1))[0], ValueError -> -1
ConsensusValue(field_consensus) ==
    IF field_consensus = <<>> THEN -1
    ELSE LET best == CHOOSE k \in DOMAIN field_consensus :
                        /\ \A j \in DOMAIN field_consensus :
                              field_consensus[j][2] <= field_consensus[k][2]
                        /\ \A j \in 1..(k - 1) :
                              field_consensus[j][2] < field_consensus[k][2]
         IN  field_consensus[best][1]

\* The consensus of one date and field of the fetched rows
FieldConsensus(weights, df, date, field) ==
    ConsensusValue(Tally(weights, <<>>, FieldData(df, date, field)))

-----------------------------------------------------------------------------
(* One validator call: validator, lines 110-300 *)

\* multithread(self.validator, self.tsid_list, threads=5)
threads == 5

\* retry_count = 5
DeleteRetries == 5

Calls == DOMAIN tsid_list

InProgress == {i \in Calls : pc[i] \in {"delete", "append", "finish"}}

\* Mutant of PoolFree: the first exception ends the map, no further call starts
PoolFree_AbortOnError ==
    /\ Cardinality(InProgress) < threads
    /\ \A j \in Calls : pc[j] # "raised"

\* Mutant of PoolFree: every entry of the list gets a thread of its own
PoolFree_Unbounded == TRUE

\* A thread of the pool is free to take the next entry of the list
PoolFree == Cardinality(InProgress) < threads

\* Mutant of KnownTable: every table is given the minute columns
KnownTable_Any(tbl) == TRUE

\* Lines 130-140: the tables consensus_price_df can be built for
KnownTable(tbl) == tbl \in {"daily_prices", "minute_prices"}

\* Mutant of HasConsensusRows: the delete is issued whatever was fetched
HasConsensusRows_Always(sources) == TRUE

\* Line 244: if validator_id in unique_sources
HasConsensusRows(sources) == validator_id \in sources

\* The rows of the raw vendors in a table
RawRows(tbl) == {r \in BagToSet(tbl) : r.data_vendor_id # validator_id}

\* The rows of a table that the set S holds, with their multiplicity
Restrict(tbl, S) == [r \in BagToSet(tbl) \cap S |-> tbl[r]]

\* The consensus rows of a table, with their multiplicity
ConsensusRows(tbl) == Restrict(tbl, {r \in BagToSet(tbl) : r.data_vendor_id = validator_id})

\* Mutant of UniqueDates: the date equal to beg_date is kept
UniqueDates_Inclusive(df, per, clock) ==
    LET all == {r.date : r \in df}
    IN  IF Truthy(per) THEN {d \in all : d >= clock - per} ELSE all

\* Mutant of UniqueDates: the period is not applied to the dates
UniqueDates_NoFilter(df, per, clock) == {r.date : r \in df}

\* Mutant of UniqueDates: the dates are taken from the rows of the vendors
\* that vote
UniqueDates_Voting(df, per, clock) ==
    LET all == {r.date : r \in {q \in df : q.data_vendor_id \notin source_id_exclude_list}}
    IN  IF Truthy(per) THEN {d \in all : d > clock - per} ELSE all

\* unique_dates, limited to the dates after beg_date when a period is given
UniqueDates(df, per, clock) ==
    LET all == {r.date : r \in df}
    IN  IF Truthy(per) THEN {d \in all : d > clock - per} ELSE all

\* Mutant of ConsensusPriceDf: the rows keep the vendor id of the first raw
\* vendor instead of validator_id
ConsensusPriceDf_RawVendor(weights, df, tbl, tsid, per, clock) ==
    {[data_vendor_id |-> 1,
      source         |-> "tsid",
      source_id      |-> tsid,
      date           |-> d,
      vals           |-> [f \in Range(Columns(tbl)) |->
                             FieldConsensus(weights, df, d, f)],
      updated_date   |-> clock] : d \in UniqueDates(df, per, clock)}

\* consensus_price_df as it is handed to df_to_sql: one row per date of
\* unique_dates, every field of the fetched rows filled with its consensus
\* value, then the vendor id, source, source_id and updated_date columns
ConsensusPriceDf(weights, df, tbl, tsid, per, clock) ==
    {[data_vendor_id |-> validator_id,
      source         |-> "tsid",
      source_id      |-> tsid,
      date           |-> d,
      vals           |-> [f \in Range(Columns(tbl)) |->
                             FieldConsensus(weights, df, d, f)],
      updated_date   |-> clock] : d \in UniqueDates(df, per, clock)}

\* Mutant of DeleteQuery: the query's arguments are interpolated in the wrong
\* order, so that no row matches
DeleteQuery_NoMatch(tbl, tsid, per, bd) == {}

\* Mutant of DeleteQuery: the query leaves out the source_id condition
DeleteQuery_AnyInstrument(tbl, tsid, per, bd) ==
    {r \in BagToSet(tbl) : /\ r.source = "tsid"
                            /\ r.data_vendor_id = validator_id
                            /\ (Truthy(per) => r.date > bd)}

\* Mutant of DeleteQuery: the query leaves out the data_vendor_id condition
DeleteQuery_AnyVendor(tbl, tsid, per, bd) ==
    {r \in BagToSet(tbl) : /\ r.source_id = tsid
                            /\ r.source = "tsid"
                            /\ (Truthy(per) => r.date > bd)}

\* Mutant of DeleteQuery: the window of the delete includes beg_date
DeleteQuery_Inclusive(tbl, tsid, per, bd) ==
    {r \in BagToSet(tbl) : /\ r.source_id = tsid
                            /\ r.source = "tsid"
                            /\ r.data_vendor_id = validator_id
                            /\ (Truthy(per) => r.date >= bd)}

\* The rows delete_query removes
DeleteQuery(tbl, tsid, per, bd) ==
    {r \in BagToSet(tbl) : /\ r.source_id = tsid
                            /\ r.source = "tsid"
                            /\ r.data_vendor_id = validator_id
                            /\ (Truthy(per) => r.date > bd)}

\* Lines 110-244: fetch, vote for every date and field, assemble the rows,
\* and branch on whether consensus rows were fetched
Start(i) ==
    /\ pc[i] = "pending"
    /\ PoolFree
    /\ LET tsid == tsid_list[i]
           df   == query_all_tsid_prices(prices, tsid)
       IN  /\ unique_sources' = [unique_sources EXCEPT ![i] = {r.data_vendor_id : r \in df}]
           /\ beg_date' = [beg_date EXCEPT ![i] = IF Truthy(period) THEN now - period ELSE None]
           /\ before' = [before EXCEPT ![i] = Restrict(prices, df)]
           /\ IF ~ KnownTable(table)
              THEN /\ pc' = [pc EXCEPT ![i] = "raised"]
                   /\ UNCHANGED <<consensus_price_df, retry_count>>
              ELSE /\ consensus_price_df' = [consensus_price_df EXCEPT ![i] =
                          ConsensusPriceDf(source_weights_df, df, table, tsid, period, now)]
                   /\ IF HasConsensusRows(unique_sources'[i])
                      THEN /\ pc' = [pc EXCEPT ![i] = "delete"]
                           /\ retry_count' = [retry_count EXCEPT ![i] = DeleteRetries]
                      ELSE /\ pc' = [pc EXCEPT ![i] = "append"]
                           /\ UNCHANGED retry_count
    /\ UNCHANGED <<prices, source_weights_df, table, period, now, tsid_list,
                   delete_status, log, last_run, upstream, download>>

\* Mutant of DeleteAttempt: the append follows the loop, whatever the loop's outcome
DeleteAttempt_AppendAfterLoop(i) ==
    /\ pc[i] = "delete"
    /\ retry_count[i] > 0
    /\ retry_count' = [retry_count EXCEPT ![i] = @ - 1]
    /\ \E status \in {"success", "failure"} :
          /\ delete_status' = [delete_status EXCEPT ![i] = status]
          /\ log' = [log EXCEPT ![i] = Append(@, <<"delete", status>>)]
          /\ IF status = "success"
             THEN /\ prices' = Restrict(prices, BagToSet(prices) \
                                  DeleteQuery(prices, tsid_list[i], period, beg_date[i]))
                  /\ pc' = [pc EXCEPT ![i] = "append"]
             ELSE /\ prices' = prices
                  /\ pc' = [pc EXCEPT ![i] =
                         IF retry_count'[i] > 0 THEN "delete" ELSE "append"]
    /\ UNCHANGED <<source_weights_df, table, period, now, tsid_list, unique_sources,
                   beg_date, consensus_price_df, before, last_run, upstream,
                   download>>

\* Mutant of DeleteAttempt: the loop runs while retry_count >= 0
DeleteAttempt_OffByOne(i) ==
    /\ pc[i] = "delete"
    /\ retry_count[i] >= 0
    /\ retry_count' = [retry_count EXCEPT ![i] = @ - 1]
    /\ \E status \in {"success", "failure"} :
          /\ delete_status' = [delete_status EXCEPT ![i] = status]
          /\ log' = [log EXCEPT ![i] = Append(@, <<"delete", status>>)]
          /\ IF status = "success"
             THEN /\ prices' = Restrict(prices, BagToSet(prices) \
                                  DeleteQuery(prices, tsid_list[i], period, beg_date[i]))
                  /\ pc' = [pc EXCEPT ![i] = "append"]
             ELSE /\ prices' = prices
                  /\ pc' = [pc EXCEPT ![i] =
                         IF retry_count'[i] >= 0 THEN "delete" ELSE "finish"]
    /\ UNCHANGED <<source_weights_df, table, period, now, tsid_list, unique_sources,
                   beg_date, consensus_price_df, before, last_run, upstream,
                   download>>

\* Mutant of DeleteAttempt: a failed attempt always leads back to the head of
\* the loop, which has no way out once the counter is used up
DeleteAttempt_NoExit(i) ==
    /\ pc[i] = "delete"
    /\ retry_count[i] > 0
    /\ retry_count' = [retry_count EXCEPT ![i] = @ - 1]
    /\ \E status \in {"success", "failure"} :
          /\ delete_status' = [delete_status EXCEPT ![i] = status]
          /\ log' = [log EXCEPT ![i] = Append(@, <<"delete", status>>)]
          /\ IF status = "success"
             THEN /\ prices' = Restrict(prices, BagToSet(prices) \
                                  DeleteQuery(prices, tsid_list[i], period, beg_date[i]))
                  /\ pc' = [pc EXCEPT ![i] = "append"]
             ELSE /\ prices' = prices
                  /\ pc' = [pc EXCEPT ![i] = "delete"]
    /\ UNCHANGED <<source_weights_df, table, period, now, tsid_list, unique_sources,
                   beg_date, consensus_price_df, before, last_run, upstream,
                   download>>

\* Lines 268-275: one pass of the retry loop up to the test of delete_status
DeleteAttempt(i) ==
    /\ pc[i] = "delete"
    /\ retry_count[i] > 0
    /\ retry_count' = [retry_count EXCEPT ![i] = @ - 1]
    /\ \E status \in {"success", "failure"} :
          /\ delete_status' = [delete_status EXCEPT ![i] = status]
          /\ log' = [log EXCEPT ![i] = Append(@, <<"delete", status>>)]
          /\ IF status = "success"
             THEN /\ prices' = Restrict(prices, BagToSet(prices) \
                                  DeleteQuery(prices, tsid_list[i], period, beg_date[i]))
                  /\ pc' = [pc EXCEPT ![i] = "append"]
             ELSE /\ prices' = prices
                  /\ pc' = [pc EXCEPT ![i] =
                         IF retry_count'[i] > 0 THEN "delete" ELSE "finish"]
    /\ UNCHANGED <<source_weights_df, table, period, now, tsid_list, unique_sources,
                   beg_date, consensus_price_df, before, last_run, upstream,
                   download>>

\* Mutant of AppendDf: the break after the append is missing
AppendDf_NoBreak(i) ==
    /\ pc[i] = "append"
    /\ \E status \in {"success", "failure"} :
          /\ log' = [log EXCEPT ![i] = Append(@, <<"append", status>>)]
          /\ prices' = IF status = "success"
                       THEN prices (+) SetToBag(consensus_price_df[i])
                       ELSE prices
    /\ pc' = [pc EXCEPT ![i] =
           IF validator_id \in unique_sources[i] /\ retry_count[i] > 0
           THEN "delete" ELSE "finish"]
    /\ UNCHANGED <<source_weights_df, table, period, now, tsid_list, unique_sources,
                   beg_date, consensus_price_df, retry_count, delete_status,
                   before, last_run, upstream, download>>

\* Mutant of AppendDf: a failed append is tried once more
AppendDf_RetryOnce(i) ==
    /\ pc[i] = "append"
    /\ \E status \in {"success", "failure"} :
          /\ log' = [log EXCEPT ![i] = Append(@, <<"append", status>>)]
          /\ prices' = IF status = "success"
                       THEN prices (+) SetToBag(consensus_price_df[i])
                       ELSE prices
          /\ pc' = [pc EXCEPT ![i] =
                 IF status = "failure" /\ (log[i] = <<>> \/ log[i][Len(log[i])][1] # "append")
                 THEN "append" ELSE "finish"]
    /\ UNCHANGED <<source_weights_df, table, period, now, tsid_list, unique_sources,
                   beg_date, consensus_price_df, retry_count, delete_status,
                   before, last_run, upstream, download>>

\* Lines 278-282 and 289-292: df_to_sql(df=consensus_price_df, exists='append')
AppendDf(i) ==
    /\ pc[i] = "append"
    /\ \E status \in {"success", "failure"} :
          /\ log' = [log EXCEPT ![i] = Append(@, <<"append", status>>)]
          /\ prices' = IF status = "success"
                       THEN prices (+) SetToBag(consensus_price_df[i])
                       ELSE prices
    /\ pc' = [pc EXCEPT ![i] = "finish"]
    /\ UNCHANGED <<source_weights_df, table, period, now, tsid_list, unique_sources,
                   beg_date, consensus_price_df, retry_count, delete_status,
                   before, last_run, upstream, download>>

\* Lines 294-300: the pause after a windowed run, and the return
Finish(i) ==
    /\ pc[i] = "finish"
    /\ pc' = [pc EXCEPT ![i] = "done"]
    /\ UNCHANGED <<prices, source_weights_df, table, period, now, tsid_list,
                   unique_sources, beg_date, consensus_price_df, retry_count,
                   delete_status, log, before, last_run, upstream, download>>

\* What the call hands back to the pool: nothing while it runs, and None once
\* it returned (validator has no return statement)
ReturnValue(i) == IF pc[i] = "done" THEN <<None>> ELSE <<>>

-----------------------------------------------------------------------------
(* QuandlDownload.download_data, src/pySecMaster/download.py lines 337-448 *)

\* The variables of the validator
validator_vars == <<prices, source_weights_df, table, period, now, tsid_list, pc,
                    unique_sources, beg_date, consensus_price_df, retry_count,
                    delete_status, log, before, last_run, upstream>>

\* What urlopen raises: an HTTPError with its status code, or a URLError
URLError == 0
Faults == {400, 403, 404, 418, 429, 500, 502, 503, 504, URLError}

\* No download is under way
NoDownload ==
    [state |-> "idle", page_num |-> None, beg_date |-> None, download_try |-> 0,
     depth |-> 0, fault |-> URLError, urls |-> <<>>, ret |-> <<>>]

\* Lines 352-363: db_url + url_var; a page number leaves no room for a date
Url(page_num, trim_start) ==
    [page_num   |-> page_num,
     trim_start |-> IF page_num # None THEN None ELSE trim_start]

\* One activation of download_data: download_try += 1, the URL is built and
\* opened. The response is returned by the activation that opened it; an
\* activation that retried calls download_data(name, download_try=...)
\* without passing page_num and beg_date and without returning its result,
\* so what the outermost activation hands back after a retry is None (the
\* empty sequence here). An exception raised inside a handler leaves every
\* activation.
download_data ==
    /\ download.state = "called"
    /\ LET try      == download.download_try + 1
           url      == Url(download.page_num, download.beg_date)
           opened   == [download EXCEPT !.download_try = try,
                                        !.urls = Append(@, url)]
           return(v) == [opened EXCEPT !.state = "returned", !.ret = v]
           raise    == [opened EXCEPT !.state = "raised"]
           again    == [opened EXCEPT !.page_num = None, !.beg_date = None,
                                      !.depth = @ + 1]
           e        == download.fault
       IN  \/ download' = return(IF download.depth = 1 THEN <<url>> ELSE <<>>)
           \/ download' =
                 IF e = 400 THEN return(<<>>)
                 ELSE IF e = 403 THEN raise
                 ELSE IF e = 404 THEN (IF Truthy(download.page_num) THEN raise
                                       ELSE return(<<>>))
                 ELSE IF e = 429 THEN (IF try > 5 THEN raise ELSE again)
                 ELSE IF e = 500 THEN return(<<>>)
                 ELSE IF e \in {502, 503, 504} THEN (IF try > 10 THEN raise ELSE again)
                 ELSE IF e = URLError THEN (IF try > 10 THEN raise ELSE again)
                 ELSE raise
    /\ UNCHANGED validator_vars

-----------------------------------------------------------------------------
(* Runs: CrossValidate.__init__ and main, lines 42-108 *)

\* The periods a run may be given: none, 0 days or 1 day
Periods == {None, 0, 1}

RunOver == \A i \in Calls : pc[i] \in {"done", "raised"}

\* A raw row of vendor v for date d: the price fields carry x, the others y
RawRow(tbl, tsid, v, d, x, y) ==
    [data_vendor_id |-> v,
     source         |-> "tsid",
     source_id      |-> tsid,
     date           |-> d,
     vals           |-> [f \in Range(Columns(tbl)) |->
                            IF f \in {"open", "high", "low", "close"} THEN x ELSE y],
     updated_date   |-> 0]

\* The weight table of query_source_weights, one row per vendor that has one
WeightRows(w) ==
    LET ids == SortedSeq({v \in DOMAIN w : w[v] # None})
    IN  [k \in DOMAIN ids |-> [data_vendor_id |-> ids[k], consensus_weight |-> w[ids[k]]]]

NoRun == [full |-> FALSE, raw |-> {}, rows |-> EmptyBag]

\* What a completed run is remembered by: whether it was a run over the whole
\* history in which every call appended its rows, the raw rows its calls
\* fetched and the consensus rows it left
RunRecord ==
    IF /\ ~ Truthy(period)
       /\ \A i \in Calls : /\ log[i] # <<>>
                            /\ log[i][Len(log[i])] = <<"append", "success">>
    THEN [full |-> TRUE,
          raw  |-> UNION {RawRows(before[i]) : i \in Calls},
          rows |-> ConsensusRows(prices)]
    ELSE NoRun

\* The per-call variables before the call starts
InitCalls ==
    /\ pc = [i \in Calls |-> "pending"]
    /\ unique_sources = [i \in Calls |-> {}]
    /\ beg_date = [i \in Calls |-> None]
    /\ consensus_price_df = [i \in Calls |-> {}]
    /\ retry_count = [i \in Calls |-> 0]
    /\ delete_status = [i \in Calls |-> "none"]
    /\ log = [i \in Calls |-> <<>>]
    /\ before = [i \in Calls |-> EmptyBag]

\* A database holding the rows of vendor 1 for the days up to some day, and a
\* CrossValidate object just built
Init ==
    /\ tsid_list = <<"T1">>
    /\ table \in {"daily_prices", "weekly_prices"}
    /\ period \in Periods
    /\ now = MaxDate
    /\ \E w2 \in {2, 3} :
          source_weights_df = WeightRows([v \in 0..2 |-> IF v = 2 THEN w2 ELSE 2])
    /\ \E last \in 0..MaxDate :
          prices = SetToBag({RawRow(table, "T1", 1, d, 10, 10) : d \in 1..last})
    /\ InitCalls
    /\ last_run = NoRun
    /\ upstream = 0
    /\ download = NoDownload

\* The next CrossValidate object is built over the same list once main returned
NewRun ==
    /\ RunOver
    /\ period' \in Periods
    /\ last_run' = RunRecord
    /\ pc' = [i \in Calls |-> "pending"]
    /\ unique_sources' = [i \in Calls |-> {}]
    /\ beg_date' = [i \in Calls |-> None]
    /\ consensus_price_df' = [i \in Calls |-> {}]
    /\ retry_count' = [i \in Calls |-> 0]
    /\ delete_status' = [i \in Calls |-> "none"]
    /\ log' = [i \in Calls |-> <<>>]
    /\ before' = [i \in Calls |-> EmptyBag]
    /\ UNCHANGED <<prices, source_weights_df, table, now, tsid_list, upstream,
                   download>>

\* Time passes between runs
Tick ==
    /\ RunOver
    /\ now < MaxNow
    /\ now' = now + 1
    /\ UNCHANGED <<prices, source_weights_df, table, period, tsid_list, pc,
                   unique_sources, beg_date, consensus_price_df, retry_count,
                   delete_status, log, before, last_run, upstream, download>>

\* Upstream ingestion stores a row of vendor 2 between runs
Upstream ==
    /\ RunOver
    /\ upstream < MaxUpstream
    /\ upstream' = upstream + 1
    /\ \E t \in Range(tsid_list), d \in Dates :
          /\ ~ \E r \in BagToSet(prices) :
                  r.source_id = t /\ r.date = d /\ r.data_vendor_id = 2
          /\ prices' = prices (+) SetToBag({RawRow(table, t, 2, d, 11, 11)})
    /\ UNCHANGED <<source_weights_df, table, period, now, tsid_list, pc,
                   unique_sources, beg_date, consensus_price_df, retry_count,
                   delete_status, log, before, last_run, download>>

Next ==
    \/ \E i \in Calls : Start(i)
    \/ \E i \in Calls : DeleteAttempt(i)
    \/ \E i \in Calls : AppendDf(i)
    \/ \E i \in Calls : Finish(i)
    \/ NewRun
    \/ Tick
    \/ Upstream

Spec == Init /\ [][Next]_vars

TypeOK ==
    /\ \A r \in BagToSet(prices) : r.date \in Dates
    /\ now \in MaxDate..MaxNow

-----------------------------------------------------------------------------
(* The vote on its own: one date of one instrument, every combination of   *)
(* vendor rows and weights, and the step of the validator that votes       *)

Absent == <<>>

\* The rows a vendor may hold for the date: (price fields, other fields)
Shapes == {<<x, x>> : x \in Values} \cup {<<10, NoData>>}

InitVote ==
    /\ tsid_list = <<"T1">>
    /\ table \in {"daily_prices", "minute_prices"}
    /\ period = None
    /\ now = MaxDate
    /\ \E w \in [Vendors -> Weights \cup {None}] :
          source_weights_df =
              WeightRows([v \in Vendors \cup {validator_id} |->
                             IF v = validator_id THEN 4 ELSE w[v]])
    /\ \E sh \in [Vendors -> Shapes \cup {Absent}], sh0 \in {Absent, <<11, 11>>} :
          prices = SetToBag(
              {RawRow(table, "T1", v, MaxDate, sh[v][1], sh[v][2]) :
                   v \in {u \in Vendors : sh[u] # Absent}}
              \cup {RawRow(table, "T1", validator_id, MaxDate, sh0[1], sh0[2]) :
                   v \in {u \in {validator_id} : sh0 # Absent}})
    /\ InitCalls
    /\ last_run = NoRun
    /\ upstream = 0
    /\ download = NoDownload

NextVote == \E i \in Calls : Start(i)

SpecVote == InitVote /\ [][NextVote]_vars

-----------------------------------------------------------------------------
(* One run of main over a list of several instruments: the pool of 5       *)
(* threads, calls that raise, calls of different instruments side by side  *)

\* The lists of the model: two instruments in either order, one instrument
\* listed twice, a list longer than the pool, and a list with an instrument
\* whose raw rows are gone
MainLists == {<<"T1", "T2">>, <<"T2", "T1">>, <<"T1", "T1">>,
              <<"T2", "T3", "T4", "T5", "T6", "T7">>, <<"T8", "T2">>}

\* The rows of an instrument before the run: a row of vendor 1 for day 1 and,
\* for T1, the consensus row an earlier run left; T8 has the consensus row of
\* an earlier run only
MainRows(tbl, tsid) ==
    (IF tsid # "T8" THEN {RawRow(tbl, tsid, 1, 1, 10, 10)} ELSE {})
    \cup (IF tsid \in {"T1", "T8"}
          THEN {RawRow(tbl, tsid, validator_id, 1, 11, 11)} ELSE {})

MainPrices(tbl, list) == SetToBag(UNION {MainRows(tbl, t) : t \in Range(list)})

InitMain ==
    /\ tsid_list \in MainLists
    /\ table \in {"daily_prices", "weekly_prices"}
    /\ period = None
    /\ now = MaxDate
    /\ source_weights_df = WeightRows([v \in 0..1 |-> 2])
    /\ prices = MainPrices(table, tsid_list)
    /\ InitCalls
    /\ last_run = NoRun
    /\ upstream = 0
    /\ download = NoDownload

\* Line 116: the fetch of the call raises, and with it the call
FetchRaises(i) ==
    /\ pc[i] = "pending"
    /\ PoolFree
    /\ pc' = [pc EXCEPT ![i] = "raised"]
    /\ UNCHANGED <<prices, source_weights_df, table, period, now, tsid_list,
                   unique_sources, beg_date, consensus_price_df, retry_count,
                   delete_status, log, before, last_run, upstream, download>>

NextMain ==
    \/ \E i \in Calls : Start(i)
    \/ \E i \in Calls : FetchRaises(i)
    \/ \E i \in Calls : DeleteAttempt(i)
    \/ \E i \in Calls : AppendDf(i)
    \/ \E i \in Calls : Finish(i)

SpecMain == InitMain /\ [][NextMain]_vars

\* A thread takes entry j of the list: the call begins, with its fetch
Take(j) == FetchRaises(j) \/ Start(j)

\* The call of entry j takes its next step
Step(j) == DeleteAttempt(j) \/ AppendDf(j) \/ Finish(j)

\* One run over a list of two entries
InitLive == InitMain /\ Len(tsid_list) = 2

\* The threads of the pool are scheduled fairly and the store answers every
\* operation: an entry that can be taken is taken, a call that can take a
\* step takes it
SpecLive ==
    /\ InitLive
    /\ [][NextMain]_vars
    /\ \A j \in 1..2 : WF_vars(Take(j)) /\ WF_vars(Step(j))

-----------------------------------------------------------------------------
(* One call of download_data against a server that, when it fails, fails    *)
(* with one kind of error                                                  *)

InitDownload ==
    /\ \E p \in {None, 1}, b \in {None, 5}, e \in Faults :
          download = [state |-> "called", page_num |-> p, beg_date |-> b,
                      download_try |-> 0, depth |-> 1, fault |-> e,
                      urls |-> <<>>, ret |-> <<>>]
    /\ tsid_list = <<>>
    /\ table = "daily_prices"
    /\ period = None
    /\ now = MaxDate
    /\ source_weights_df = <<>>
    /\ prices = EmptyBag
    /\ InitCalls
    /\ last_run = NoRun
    /\ upstream = 0

NextDownload == download_data

SpecDownload == InitDownload /\ [][NextDownload]_vars

-----------------------------------------------------------------------------
(* Vocabulary of the properties *)

\* The call has voted: consensus_price_df holds its rows
Computed(i) == pc[i] \in {"delete", "append", "finish", "done"}

\* The rows the call fetched
Fetched(i) == query_all_tsid_prices(before[i], tsid_list[i])

HasWeight(v) == \E k \in DOMAIN source_weights_df : source_weights_df[k].data_vendor_id = v

WeightOf(v) ==
    LET k == CHOOSE j \in DOMAIN source_weights_df :
                /\ source_weights_df[j].data_vendor_id = v
                /\ \A h \in 1..(j - 1) : source_weights_df[h].data_vendor_id # v
    IN  source_weights_df[k].consensus_weight

\* The rows whose value of field f on date d counts in the vote: the vendor is
\* not excluded, the cell is not None, the vendor has a weight row
Voters(df, d, f) ==
    {r \in df : /\ r.date = d
                /\ r.data_vendor_id \notin source_id_exclude_list
                /\ r.vals[f] # None
                /\ HasWeight(r.data_vendor_id)}

RECURSIVE SumWeights(_)
SumWeights(V) ==
    IF V = {} THEN 0
    ELSE LET v == CHOOSE u \in V : TRUE IN WeightOf(v) + SumWeights(V \ {v})

\* The accumulated weight of value x: the weights of the voters that report x
AccWeight(df, d, f, x) ==
    SumWeights({r.data_vendor_id : r \in {q \in Voters(df, d, f) : q.vals[f] = x}})

\* C1: Weighted majority by value. Whenever a call has voted, each field of
\* each consensus row carries a value that some voter reported, and no value a
\* voter reported has a larger accumulated weight (the weights of all voters
\* reporting that value, added up).
C1_WeightedMajority ==
    \A i \in Calls : Computed(i) =>
        \A c \in consensus_price_df[i] : \A f \in DOMAIN c.vals :
            LET V == Voters(Fetched(i), c.date, f)
            IN  V # {} =>
                  /\ \E r \in V : r.vals[f] = c.vals[f]
                  /\ \A r \in V : AccWeight(Fetched(i), c.date, f, r.vals[f])
                                    <= AccWeight(Fetched(i), c.date, f, c.vals[f])

\* C1 witness: two vendors report 10, a third whose weight exceeds each of
\* theirs reports 11, and the consensus is 10 by the sum of the two weights
C1_Witness ==
    \E i \in Calls :
        /\ Computed(i)
        /\ \E c \in consensus_price_df[i] :
              /\ c.vals["open"] = 10
              /\ \E a, b, h \in Voters(Fetched(i), c.date, "open") :
                    /\ a # b
                    /\ a.vals["open"] = 10 /\ b.vals["open"] = 10
                    /\ h.vals["open"] = 11
                    /\ WeightOf(h.data_vendor_id) > WeightOf(a.data_vendor_id)
                    /\ WeightOf(h.data_vendor_id) > WeightOf(b.data_vendor_id)

\* C2: Sentinel values do not vote. Where a voter reports a real value for a
\* date and field, the consensus is not the no-data value -1, whatever weight
\* the vendors reporting -1 have.
C2_SentinelNeverWins ==
    \A i \in Calls : Computed(i) =>
        \A c \in consensus_price_df[i] : \A f \in DOMAIN c.vals :
            (\E r \in Voters(Fetched(i), c.date, f) : r.vals[f] # NoData)
                => c.vals[f] # NoData

\* C9: No data is a value. Every consensus row has a value other than None in
\* every field of the table, and the value is -1 where no vendor that is not
\* excluded and has a weight row reports a value other than -1 or None.
C9_NoDataIsAValue ==
    \A i \in Calls : Computed(i) =>
        \A c \in consensus_price_df[i] :
            /\ DOMAIN c.vals = Range(Columns(table))
            /\ \A f \in DOMAIN c.vals :
                  /\ c.vals[f] # None
                  /\ (\A r \in Voters(Fetched(i), c.date, f) : r.vals[f] = NoData)
                        => c.vals[f] = NoData

\* C9 witness: a date whose rows are a consensus row, a row of -1 from a vendor
\* with a weight and a real value from a vendor without one; the field is -1
C9_Witness ==
    \E i \in Calls :
        /\ Computed(i)
        /\ \E c \in consensus_price_df[i] :
              /\ c.vals["close"] = NoData
              /\ \E r0, r1, r2 \in Fetched(i) :
                    /\ r0.date = c.date /\ r1.date = c.date /\ r2.date = c.date
                    /\ r0.data_vendor_id = validator_id
                    /\ r1.vals["close"] = NoData /\ HasWeight(r1.data_vendor_id)
                    /\ r1.data_vendor_id # validator_id
                    /\ r2.vals["close"] = 10 /\ ~ HasWeight(r2.data_vendor_id)

\* C10: Missing-weight tolerance. The call does not fail, and for every date
\* and field the tally, and the value chosen from it, are those obtained from
\* the fetched rows with the rows of the vendors that have no weight row left out.
C10_MissingWeightTolerated ==
    \A i \in Calls :
        /\ pc[i] # "raised"
        /\ Computed(i) =>
              \A c \in consensus_price_df[i] : \A f \in DOMAIN c.vals :
                  LET weighted == {r \in Fetched(i) : HasWeight(r.data_vendor_id)}
                      tally    == Tally(source_weights_df, <<>>,
                                        FieldData(weighted, c.date, f))
                  IN  /\ Tally(source_weights_df, <<>>,
                               FieldData(Fetched(i), c.date, f)) = tally
                      /\ c.vals[f] = ConsensusValue(tally)

\* C10 witness: a vendor without a weight row reports 11 where a vendor with
\* one reports 10, and the consensus is 10
C10_Witness ==
    \E i \in Calls :
        /\ Computed(i)
        /\ \E c \in consensus_price_df[i] : \E r1, r2 \in Fetched(i) :
              /\ r1.date = c.date /\ r2.date = c.date
              /\ r1.data_vendor_id \in Vendors /\ ~ HasWeight(r1.data_vendor_id)
              /\ r1.vals["volume"] = 11
              /\ HasWeight(r2.data_vendor_id) /\ r2.vals["volume"] = 10
              /\ r2.data_vendor_id \in Vendors
              /\ c.vals["volume"] = 10

-----------------------------------------------------------------------------
(* The writer *)

\* How many consensus rows the table holds for instrument tsid and date d
CountFor(tbl, tsid, d) ==
    BagCardinality(Restrict(tbl, {r \in BagToSet(tbl) :
        /\ r.data_vendor_id = validator_id
        /\ r.source_id = tsid
        /\ r.date = d}))

\* The consensus rows of instrument tsid in a table
ConsensusOf(tbl, tsid) ==
    Restrict(tbl, {r \in BagToSet(tbl) :
        r.data_vendor_id = validator_id /\ r.source_id = tsid})

\* The call's last store operation was an append that succeeded
Appended(i) == log[i] # <<>> /\ log[i][Len(log[i])] = <<"append", "success">>

\* Every delete attempt of the call was made and failed
AllDeletesFailed(i) ==
    /\ Len(log[i]) >= DeleteRetries
    /\ \A k \in 1..DeleteRetries : log[i][k] = <<"delete", "failure">>

\* C3: Fail-closed write. Once the 5 delete attempts of a call have all failed,
\* the call issues no further store operation (no append), and the table holds
\* for the instrument the consensus rows it held when the call fetched.
C3_FailClosed ==
    \A i \in Calls : AllDeletesFailed(i) =>
        /\ Len(log[i]) = DeleteRetries
        /\ pc[i] \in {"finish", "done"}
        /\ ConsensusOf(prices, tsid_list[i]) = ConsensusOf(before[i], tsid_list[i])

\* C3 witness: a finished call whose 5 deletes failed and which had computed
\* rows that differ from the stored ones
C3_Witness ==
    \E i \in Calls :
        /\ pc[i] = "done"
        /\ AllDeletesFailed(i)
        /\ \E c \in consensus_price_df[i] : c \notin BagToSet(prices)

\* C4: Delete-then-insert ordering. In a call that fetched consensus rows,
\* every append is directly preceded by a delete that returned 'success', and
\* no delete follows an append.
C4_DeleteThenInsert ==
    \A i \in Calls : validator_id \in unique_sources[i] =>
        \A k \in DOMAIN log[i] : log[i][k][1] = "append" =>
            /\ k > 1
            /\ log[i][k - 1] = <<"delete", "success">>
            /\ \A j \in DOMAIN log[i] : j > k => log[i][j][1] # "delete"

\* C4 witness: a finished call that fetched consensus rows, failed a delete,
\* succeeded with the next one and then appended
C4_Witness ==
    \E i \in Calls :
        /\ pc[i] = "done"
        /\ validator_id \in unique_sources[i]
        /\ log[i] = << <<"delete", "failure">>, <<"delete", "success">>,
                       <<"append", "success">> >>

\* C5 as stated: after a completed call the table holds exactly one consensus
\* row for the instrument and each date the call covered, whether its deletes
\* and its append succeeded or failed.
C5_ExactlyOnePerDate ==
    \A i \in Calls : pc[i] = "done" =>
        \A c \in consensus_price_df[i] : CountFor(prices, tsid_list[i], c.date) = 1

\* C5 amended: the table never holds two consensus rows for one instrument and
\* date; and after a completed call whose append succeeded it holds exactly
\* one for each date the call covered.
C5_AtMostOnePerDate ==
    /\ \A t \in Range(tsid_list) : \A d \in Dates : CountFor(prices, t, d) <= 1
    /\ \A i \in Calls : (pc[i] = "done" /\ Appended(i)) =>
          \A c \in consensus_price_df[i] : CountFor(prices, tsid_list[i], c.date) = 1

\* C5 witness: a completed windowed call that deleted and appended, leaving a
\* row of an earlier run outside the window next to a row it wrote
C5_Witness ==
    \E i \in Calls :
        /\ pc[i] = "done"
        /\ Truthy(period)
        /\ log[i] = << <<"delete", "success">>, <<"append", "success">> >>
        /\ \E r1, r2 \in BagToSet(ConsensusOf(prices, tsid_list[i])) :
              /\ r1.date <= beg_date[i]
              /\ r2 \in consensus_price_df[i]

\* A row without its updated_date column
StripUpdated(r) ==
    [data_vendor_id |-> r.data_vendor_id, source |-> r.source,
     source_id |-> r.source_id, date |-> r.date, vals |-> r.vals]

\* A bag of rows without their updated_date column
StripBag(tbl) ==
    LET S == {StripUpdated(r) : r \in BagToSet(tbl)}
    IN  [q \in S |-> BagCardinality(Restrict(tbl,
                        {r \in BagToSet(tbl) : StripUpdated(r) = q}))]

\* Two runs in succession over the whole history, in each of which every call
\* appended its rows, the second having fetched the raw rows the first fetched
TwoFullRuns ==
    /\ RunOver
    /\ last_run.full
    /\ RunRecord.full
    /\ RunRecord.raw = last_run.raw

\* C6 as stated: the second run leaves consensus rows identical in every
\* column, updated_date included, to those the first run left.
C6_IdenticalInEveryColumn ==
    TwoFullRuns => ConsensusRows(prices) = last_run.rows

\* C6 amended: the second run leaves consensus rows identical to those the
\* first run left in every column other than updated_date, which carries the
\* time of the run that wrote the row.
C6_Idempotent ==
    TwoFullRuns => StripBag(ConsensusRows(prices)) = StripBag(last_run.rows)

\* C6 witness: the second of two such runs deleted the rows of the first and
\* appended its own
C6_Witness ==
    /\ TwoFullRuns
    /\ last_run.rows # EmptyBag
    /\ \A i \in Calls : log[i] = << <<"delete", "success">>, <<"append", "success">> >>

\* C7: Exclusion enforcement. For every date and field the tally built from
\* the fetched rows is the tally built from the raw rows alone, and the
\* consensus value is the one chosen from it: the consensus rows that earlier
\* runs left add no weight and change no value.
C7_ExcludedNeverVotes ==
    \A i \in Calls : Computed(i) =>
        \A c \in consensus_price_df[i] : \A f \in DOMAIN c.vals :
            LET raw   == {r \in Fetched(i) : r.data_vendor_id # validator_id}
                tally == Tally(source_weights_df, <<>>, FieldData(raw, c.date, f))
            IN  /\ Tally(source_weights_df, <<>>,
                         FieldData(Fetched(i), c.date, f)) = tally
                /\ c.vals[f] = ConsensusValue(tally)

\* C7 witness: the fetched rows hold a consensus row of an earlier run whose
\* vendor has a weight row and whose value differs from the newly voted one
C7_Witness ==
    \E i \in Calls :
        /\ Computed(i)
        /\ HasWeight(validator_id)
        /\ \E r \in Fetched(i) : \E c \in consensus_price_df[i] :
              /\ r.data_vendor_id = validator_id
              /\ r.date = c.date
              /\ r.vals["open"] # c.vals["open"]

\* C8: Trailing-period filter. When a period of N days is given, the call
\* computes rows exactly for the fetched dates after now - N, and when it
\* returns, the consensus rows of dates at or before now - N are those the
\* table held when the call fetched.
C8_TrailingPeriod ==
    \A i \in Calls : (period # None /\ pc[i] \in {"delete", "append", "finish"}) =>
        LET old(tbl) == Restrict(tbl, {r \in BagToSet(tbl) :
                            /\ r.source_id = tsid_list[i]
                            /\ r.data_vendor_id = validator_id
                            /\ r.date <= now - period})
        IN  /\ {c.date : c \in consensus_price_df[i]}
                 = {d \in {r.date : r \in Fetched(i)} : d > now - period}
            /\ pc[i] = "finish" => old(prices) = old(before[i])

-----------------------------------------------------------------------------
(* The tie-break of the vote *)

\* The first vendor, in the order the vendors are iterated, whose vote is x
FirstVoter(df, d, f, x) ==
    Min({r.data_vendor_id : r \in {q \in Voters(df, d, f) : q.vals[f] = x}})

\* The values voted for that have the largest accumulated weight
Leaders(df, d, f) ==
    {r.vals[f] : r \in {q \in Voters(df, d, f) :
        \A o \in Voters(df, d, f) :
            AccWeight(df, d, f, o.vals[f]) <= AccWeight(df, d, f, q.vals[f])}}

\* C11: Tie-break. When several values share the largest accumulated weight,
\* the consensus is the one of them that was voted for first in the order the
\* vendors are iterated (its bucket was created first), whatever the numeric
\* order of the tied values.
C11_TieBreakFirstInserted ==
    \A i \in Calls : Computed(i) =>
        \A c \in consensus_price_df[i] : \A f \in DOMAIN c.vals :
            LET L == Leaders(Fetched(i), c.date, f)
            IN  L # {} =>
                  /\ c.vals[f] \in L
                  /\ \A x \in L : FirstVoter(Fetched(i), c.date, f, c.vals[f])
                                      <= FirstVoter(Fetched(i), c.date, f, x)

\* A tie of two values that the numerically larger one wins, its bucket being
\* the first
C11_Witness ==
    \E i \in Calls : \E c \in consensus_price_df[i] :
        /\ Computed(i)
        /\ Cardinality(Leaders(Fetched(i), c.date, "close")) = 2
        /\ c.vals["close"] = 11
        /\ 10 \in Leaders(Fetched(i), c.date, "close")
        /\ FirstVoter(Fetched(i), c.date, "close", 11)
              < FirstVoter(Fetched(i), c.date, "close", 10)

-----------------------------------------------------------------------------
(* The run over several instruments *)

\* The call is between its fetch and its return
Running(i) == pc[i] \in {"delete", "append", "finish"}

\* Every entry of the list has been dealt with
PoolDone == \A i \in Calls : pc[i] \in {"done", "raised"}

\* C12: Error isolation. A call that raised leaves every other entry of the
\* list free to run: an entry not yet taken can be taken as soon as one of
\* the 5 threads is free, a call under way can take its next step, and the
\* run never stops while an entry is neither returned nor raised.
C12_ErrorIsolation ==
    (\E i \in Calls : pc[i] = "raised") =>
        /\ \A j \in Calls :
              /\ (pc[j] = "pending" /\ Cardinality(InProgress) < threads)
                    => ENABLED Take(j)
              /\ Running(j) => ENABLED Step(j)
        /\ PoolDone \/ \E j \in Calls : ENABLED Take(j) \/ ENABLED Step(j)

\* The first entry's fetch raised and every other entry was voted on,
\* written and returned
C12_Witness ==
    /\ KnownTable(table)
    /\ Len(tsid_list) > 1
    /\ pc[1] = "raised"
    /\ before[1] = EmptyBag
    /\ \A j \in Calls \ {1} : pc[j] = "done" /\ Appended(j)

\* C13: Exhausting the delete retries is reported. A call whose 5 delete
\* attempts all failed returns with a failed status: what it returns differs
\* from what a call returns whose rows were appended, so the run ends with a
\* status per instrument.
C13_DeleteFailureReported ==
    \A i, j \in Calls :
        (/\ pc[i] = "done" /\ AllDeletesFailed(i)
         /\ pc[j] = "done" /\ Appended(j))
            => ReturnValue(i) # ReturnValue(j)

\* C14: Unsupported table. When the table is neither daily_prices nor
\* minute_prices, a call raises right after its fetch: it issues no delete and
\* no append and retries nothing, the table stays as it was before the run,
\* and the other entries of the list are still taken by the pool (each of
\* them raising in turn).
C14_UnsupportedTable ==
    table \notin {"daily_prices", "minute_prices"} =>
        /\ prices = MainPrices(table, tsid_list)
        /\ \A i \in Calls :
              /\ pc[i] \in {"pending", "raised"}
              /\ log[i] = <<>>
              /\ retry_count[i] = 0
              /\ consensus_price_df[i] = {}
              /\ (pc[i] = "pending" /\ Cardinality(InProgress) < threads)
                    => ENABLED Take(i)

\* Every call of a list of several entries fetched and raised
C14_Witness ==
    /\ table = "weekly_prices"
    /\ Len(tsid_list) > 1
    /\ \A i \in Calls : pc[i] = "raised" /\ before[i] # EmptyBag

-----------------------------------------------------------------------------
(* The writer's branch and the rows the vote produces *)

\* The vendors of the rows the call fetched
FetchedVendors(i) == {r.data_vendor_id : r \in Fetched(i)}

\* C15: Pure insert on first run. A call that fetched no row of the consensus
\* vendor issues no delete at all: once it has voted, its next and only store
\* operation is the append.
C15_PureInsert ==
    \A i \in Calls : (Computed(i) /\ validator_id \notin FetchedVendors(i)) =>
        /\ \A k \in DOMAIN log[i] : log[i][k][1] # "delete"
        /\ \/ pc[i] = "append" /\ log[i] = <<>>
           \/ pc[i] \in {"finish", "done"} /\ Len(log[i]) = 1 /\ log[i][1][1] = "append"

\* A returned call that fetched raw rows only and appended its rows
C15_Witness ==
    \E i \in Calls :
        /\ pc[i] = "done"
        /\ Fetched(i) # {}
        /\ validator_id \notin FetchedVendors(i)
        /\ log[i] = << <<"append", "success">> >>
        /\ consensus_price_df[i] # {}
        /\ \A c \in consensus_price_df[i] : c \in BagToSet(prices)

\* The dates of the fetched rows that the call's period leaves: all of them
\* when the call has no beg_date, else those after beg_date
SurvivingDates(i) ==
    {d \in {r.date : r \in Fetched(i)} : beg_date[i] # None => d > beg_date[i]}

-----------------------------------------------------------------------------
(* The pool *)

\* C17: Bounded worker pool. In a run of main every entry of tsid_list gets
\* one validator call: never more than 5 calls are under way, an entry that
\* was taken is not taken again, a call that returned or raised takes no
\* further step, and the run does not stop while an entry is left.
C17_BoundedPool ==
    /\ [](/\ Cardinality(InProgress) <= threads
          /\ PoolDone \/ \E j \in Calls : ENABLED Take(j) \/ ENABLED Step(j))
    /\ [][\A i \in Calls :
             /\ pc[i] # "pending" => pc'[i] # "pending"
             /\ pc[i] \in {"done", "raised"} => pc'[i] = pc[i]]_vars

\* A list longer than the pool: 5 calls under way, the sixth entry waiting
C17_Witness ==
    /\ Len(tsid_list) > threads
    /\ Cardinality(InProgress) = threads
    /\ \E j \in Calls : pc[j] = "pending"

Distinct == \A i, j \in Calls : i # j => tsid_list[i] # tsid_list[j]

\* All rows of an instrument in a table, with their multiplicity
RowsOf(tbl, tsid) == Restrict(tbl, {r \in BagToSet(tbl) : r.source_id = tsid})

\* All rows of the other instruments in a table, with their multiplicity
OthersOf(tbl, tsid) == Restrict(tbl, {r \in BagToSet(tbl) : r.source_id # tsid})

\* Some delete of the call returned 'success'
Deleted(i) == \E k \in DOMAIN log[i] : log[i][k] = <<"delete", "success">>

\* The rows a call votes when it fetches the rows its instrument had before
\* the run
VotedAlone(i) ==
    ConsensusPriceDf(source_weights_df, MainRows(table, tsid_list[i]), table,
                     tsid_list[i], period, now)

\* The rows the instrument of call i holds when the store operations the
\* call's log records are applied to the rows the instrument had before the
\* run: a successful delete removes its consensus rows, a successful append
\* adds the rows the call voted
Alone(i) ==
    LET rows == MainRows(table, tsid_list[i])
        kept == SetToBag(IF Deleted(i)
                         THEN {r \in rows : r.data_vendor_id # validator_id}
                         ELSE rows)
    IN  IF Appended(i) THEN kept (+) SetToBag(consensus_price_df[i]) ELSE kept

\* C19: Independence across instruments. For a list of distinct instruments
\* the rows each instrument holds depend on its own call only: a call votes
\* the rows it would vote when run alone on the rows its instrument had before
\* the run, and the instrument holds what the call's own store operations
\* make of those rows, whatever the other calls do, however the calls
\* interleave and in whatever order the list names them. A step that changes
\* the table is a store operation of one call and leaves the rows of every
\* other instrument as they are, and no step changes the weight table.
C19_Independence ==
    /\ [](Distinct => \A i \in Calls : RowsOf(prices, tsid_list[i]) = Alone(i))
    /\ [][Distinct =>
             /\ source_weights_df' = source_weights_df
             /\ \A i \in Calls :
                   IF pc[i] = "pending" /\ pc'[i] \in {"delete", "append"}
                   THEN consensus_price_df'[i] = VotedAlone(i)
                   ELSE consensus_price_df'[i] = consensus_price_df[i]
             /\ prices' # prices =>
                   \E i \in Calls :
                       /\ log'[i] # log[i]
                       /\ OthersOf(prices', tsid_list[i]) = OthersOf(prices, tsid_list[i])]_vars

\* T2 is listed before T1; the call of T1 deleted the stale row and appended,
\* the call of T2 appended, and both returned
C19_Witness ==
    /\ tsid_list = <<"T2", "T1">>
    /\ \A i \in Calls : pc[i] = "done" /\ Appended(i)
    /\ Deleted(2)
    /\ \A i \in Calls : consensus_price_df[i] # {}

-----------------------------------------------------------------------------
(* The raw rows *)

\* The raw rows of a table, with their multiplicity
RawBag(tbl) == Restrict(tbl, RawRows(tbl))

\* C20: Raw observations are read-only. Every row a step removes belongs to
\* the consensus vendor, has source 'tsid' and the tsid of the call that
\* issued the operation; over any sequence of runs the rows of the other
\* vendors are changed by upstream ingestion only, never by a call.
C20_RawReadOnly ==
    [][/\ upstream' = upstream => RawBag(prices') = RawBag(prices)
       /\ \A r \in BagToSet(prices) :
             CopiesIn(r, prices') < CopiesIn(r, prices) =>
                 /\ r.data_vendor_id = validator_id
                 /\ r.source = "tsid"
                 /\ \E i \in Calls : /\ log'[i] = Append(log[i], <<"delete", "success">>)
                                     /\ r.source_id = tsid_list[i]]_vars

\* A delete has just removed the consensus rows of an instrument that has raw
\* rows of two vendors
C20_Witness ==
    \E i \in Calls :
        /\ pc[i] = "append"
        /\ Deleted(i)
        /\ ConsensusOf(before[i], tsid_list[i]) # EmptyBag
        /\ ConsensusOf(prices, tsid_list[i]) = EmptyBag
        /\ Cardinality({r.data_vendor_id : r \in RawRows(prices)}) = 2
        /\ RawBag(prices) = RawBag(before[i])

-----------------------------------------------------------------------------
(* The rows a call writes *)

\* C21: Output tagging. Every row a call adds to the table carries the id of
\* the consensus vendor, which the exclusion list holds, the source 'tsid'
\* and the tsid of the call whose append stored it.
C21_OutputTagging ==
    [][upstream' = upstream =>
          \A r \in BagToSet(prices') :
              CopiesIn(r, prices') > CopiesIn(r, prices) =>
                  /\ r.data_vendor_id = validator_id
                  /\ r.data_vendor_id \in source_id_exclude_list
                  /\ r.source = "tsid"
                  /\ \E i \in Calls :
                        /\ log'[i] = Append(log[i], <<"append", "success">>)
                        /\ r.source_id = tsid_list[i]
                        /\ r \in consensus_price_df[i]]_vars

\* A returned call whose rows, computed from raw rows, are in the table
C21_Witness ==
    \E i \in Calls :
        /\ pc[i] = "done"
        /\ Appended(i)
        /\ RawRows(before[i]) # {}
        /\ consensus_price_df[i] # {}
        /\ \A c \in consensus_price_df[i] : CopiesIn(c, prices) = 1

-----------------------------------------------------------------------------
(* The number of store operations of a call *)

\* The positions of the call's log that hold an operation of kind op
OpsOf(i, op) == {k \in DOMAIN log[i] : log[i][k][1] = op}

\* C22: Bounded delete retry. A call attempts the delete at most 5 times;
\* every attempt but the first directly follows a failed attempt, and no
\* delete attempt comes after a successful one.
C22_BoundedDeleteRetry ==
    \A i \in Calls :
        /\ Cardinality(OpsOf(i, "delete")) <= 5
        /\ \A k \in OpsOf(i, "delete") :
              /\ k > 1 => log[i][k - 1] = <<"delete", "failure">>
              /\ log[i][k][2] = "success" =>
                    \A m \in OpsOf(i, "delete") : m <= k

\* A call whose delete failed four times and succeeded at the fifth attempt
C22_Witness ==
    \E i \in Calls :
        /\ Cardinality(OpsOf(i, "delete")) = 5
        /\ log[i][5] = <<"delete", "success">>
        /\ pc[i] = "done"

\* C23: No insert retry. A call invokes the append at most once, on the
\* delete path and on the pure-insert path, whether the append succeeds or
\* fails.
C23_NoInsertRetry ==
    \A i \in Calls : Cardinality(OpsOf(i, "append")) <= 1

\* A returned call whose delete succeeded and whose one append failed
C23_Witness ==
    \E i \in Calls :
        /\ pc[i] = "done"
        /\ log[i][Len(log[i])] = <<"append", "failure">>
        /\ Deleted(i)
        /\ Cardinality(OpsOf(i, "append")) = 1

-----------------------------------------------------------------------------
(* Termination *)

\* C24: Termination. With the threads scheduled fairly, a call that has
\* entered the delete loop returns, also when every delete fails, and the run
\* reaches the point where every entry of the list has returned or raised.
C24_Termination ==
    /\ <>PoolDone
    /\ \A j \in 1..2 : (pc[j] = "delete") ~> (pc[j] = "done")

\* The run is over and one of its calls returned after 5 failed deletes
C24_Witness ==
    /\ PoolDone
    /\ \E i \in Calls : pc[i] = "done" /\ AllDeletesFailed(i) /\ Len(log[i]) = 5

-----------------------------------------------------------------------------
(* The windowed replace *)

\* The consensus rows the call fetched of which the table now holds fewer
\* copies
Removed(i) ==
    {r \in BagToSet(before[i]) :
        /\ r.data_vendor_id = validator_id
        /\ CopiesIn(r, prices) < CopiesIn(r, before[i])}

\* C25: Windowed replace loses no date. In a call with a window whose delete
\* succeeded, every consensus row that was removed has a date for which the
\* call computed a row, and once the append succeeded the table holds that
\* row.
C25_WindowedReplaceKeepsDates ==
    \A i \in Calls : (beg_date[i] # None /\ Deleted(i)) =>
        \A r \in Removed(i) :
            \E c \in consensus_price_df[i] :
                /\ c.date = r.date
                /\ Appended(i) => CopiesIn(c, prices) = 1

\* A windowed call that removed the row of a date inside the window, kept
\* the row of a date outside of it and appended
C25_Witness ==
    \E i \in Calls :
        /\ beg_date[i] # None
        /\ Deleted(i) /\ Appended(i)
        /\ \E r \in Removed(i) : r.date > beg_date[i]
        /\ \E r \in BagToSet(before[i]) :
              /\ r.data_vendor_id = validator_id
              /\ r.date <= beg_date[i]
              /\ CopiesIn(r, prices) = 1

\* C26: Replace is atomic with respect to append failure. When a call whose
\* delete succeeded has issued its append, the table holds every row the
\* call computed: the removed rows are never left without their replacement.
C26_AtomicReplace ==
    \A i \in Calls : (pc[i] \in {"finish", "done"} /\ Deleted(i)) =>
        \A c \in consensus_price_df[i] : CopiesIn(c, prices) = 1

-----------------------------------------------------------------------------
(* Where the written values come from *)

\* C27: Consensus provenance. Every value of a computed row is -1 or a value
\* that a vendor outside the exclusion list, with a row in the weight table,
\* reported in a fetched row of the same instrument, date and field.
C27_Provenance ==
    \A i \in Calls : Computed(i) =>
        \A c \in consensus_price_df[i] : \A f \in DOMAIN c.vals :
            \/ c.vals[f] = -1
            \/ \E r \in Fetched(i) :
                  /\ r.source_id = c.source_id
                  /\ r.date = c.date
                  /\ r.vals[f] = c.vals[f]
                  /\ r.data_vendor_id \notin source_id_exclude_list
                  /\ HasWeight(r.data_vendor_id)

\* A row whose close is the value of the one vendor that qualifies, while
\* the consensus vendor and a vendor without weight row report another value
C27_Witness ==
    \E i \in Calls : \E c \in consensus_price_df[i] :
        /\ Computed(i)
        /\ c.vals["close"] = 10
        /\ Cardinality(Voters(Fetched(i), c.date, "close")) = 1
        /\ \E r, q \in Fetched(i) :
              /\ r.date = c.date /\ q.date = c.date
              /\ r.data_vendor_id = validator_id /\ r.vals["close"] = 11
              /\ q.data_vendor_id # validator_id
              /\ ~ HasWeight(q.data_vendor_id) /\ q.vals["close"] = 11

\* The dates for which the call fetched rows of excluded vendors only
ConsensusOnlyDates(i) ==
    {d \in SurvivingDates(i) :
        \A r \in Fetched(i) :
            r.date = d => r.data_vendor_id \in source_id_exclude_list}

\* C28: Dates known only from prior consensus rows. For a date of which the
\* call fetched a consensus row and no raw row, the call computes a row
\* whose every field is -1, and after its delete and append succeeded that
\* row is the one consensus row the table holds for the date.
C28_ConsensusOnlyDates ==
    \A i \in Calls : (Computed(i) /\ Distinct) =>
        \A d \in ConsensusOnlyDates(i) :
            \E c \in consensus_price_df[i] :
                /\ c.date = d
                /\ \A f \in DOMAIN c.vals : c.vals[f] = -1
                /\ (Deleted(i) /\ Appended(i)) =>
                      /\ CountFor(prices, tsid_list[i], d) = 1
                      /\ CopiesIn(c, prices) = 1

\* The call for the instrument without raw rows replaced the stale row
C28_Witness ==
    \E i \in Calls :
        /\ pc[i] = "done"
        /\ ConsensusOnlyDates(i) # {}
        /\ Deleted(i) /\ Appended(i)
        /\ \A r \in BagToSet(before[i]) : r.vals["close"] = 11 /\ CopiesIn(r, prices) = 0

-----------------------------------------------------------------------------
(* The download and its retries *)

\* C29: Download result survives retries. When an attempt of a download
\* succeeded, the call returns the response of the URL of its first attempt,
\* and every attempt requested that URL, also when earlier attempts failed
\* with HTTP 429, 502, 503, 504 or a URLError.
C29_ResultSurvivesRetries ==
    (download.state = "returned" /\ download.fault \in {429, 502, 503, 504, URLError}) =>
        /\ download.ret = <<download.urls[1]>>
        /\ \A k \in DOMAIN download.urls : download.urls[k] = download.urls[1]

\* C30: Bounded download retry. When every attempt failed, the call raises
\* after the number of attempts its message states: 5 for HTTP 429, 10 for
\* HTTP 502, 503, 504 and URLError.
C30_BoundedDownloadRetry ==
    download.state = "raised" =>
        /\ download.fault = 429 => Len(download.urls) = 5
        /\ download.fault \in {502, 503, 504, URLError} => Len(download.urls) = 10

====
